---- MODULE Spec2Model ----
(***************************************************************************)
(* Model of the retrieval core of the document-intelligence system:        *)
(*   src/src/search/vector_store.py  (VectorStore)                         *)
(*   src/src/search/retriever.py     (Retriever)                           *)
(*   src/src/processors/text_chunker.py (chunk ids of a corpus)            *)
(*                                                                         *)
(* Texts and queries are sequences of words.  Scores are integers: a       *)
(* cosine similarity s is kept as SimScale * s, a final (reranked) score f *)
(* as ScoreScale * f.                                                      *)
(***************************************************************************)
EXTENDS Integers, Sequences, FiniteSets, TLC

(***************************************************************************)
(* Bounds of the model.                                                    *)
(***************************************************************************)
MaxChunks == 3      \* longest chunk list handed to add_chunks
MaxQueryLen == 2    \* longest query, in words
MaxTopK == 2        \* largest top_k / max_results tried
MaxParas == 3       \* most paragraphs on a page given to the chunker
MaxPages == 2       \* most pages of a document given to the chunker
MaxDocs == 2        \* most documents given to chunk_documents
MaxEnhanceLen == 3  \* longest query given to _enhance_query alone, in words

(***************************************************************************)
(* Inputs.                                                                 *)
(***************************************************************************)
Documents == {"X", "Y"}

\* the (document, text) pairs of the chunks
ChunkA == [document |-> "X", text |-> << "office", "bank" >>]
ChunkB == [document |-> "Y", text |-> << "the", "office", "bank", "registered" >>]
ChunkS == [document |-> "X", text |-> << "the" >>]

\* the chunk lists tried, each document's chunks together
CorpusPool ==
  { << >>,
    << ChunkA >>, << ChunkS >>,
    << ChunkA, ChunkA >>, << ChunkA, ChunkB >>, << ChunkA, ChunkS >>,
    << ChunkA, ChunkA, ChunkB >> }

\* the queries tried; << >> stands for the empty and the whitespace-only query
QueryPool ==
  { << >>,
    << "office" >>, << "the" >>, << "KYC" >>, << "address" >>,
    << "the", "office" >>,
    << "the", "office", "bank" >> }

Queries == {q \in QueryPool : Len(q) <= MaxQueryLen}

\* thresholds, as SimScale * threshold: 0.0, 0.3 (RELEVANCE_THRESHOLD), 0.5
Thresholds == {0, 300, 500}

None == "<None>"

\* filter_document: None, the empty string, or a document name
Filters == {None, "", "Y"}

(***************************************************************************)
(* Words.  Every word has at least two characters, so the vectorizer's     *)
(* token pattern keeps it.  "KYC" is the one word with upper-case letters. *)
(***************************************************************************)
Alphabet ==
  << "address", "bank", "board", "certificate", "customer", "director",
     "document", "form", "know", "kyc", "location", "member", "office",
     "officer", "registered", "the", "verification", "your" >>

\* the place of each word in the alphabetical order
RankOf == [w \in {Alphabet[i] : i \in 1..Len(Alphabet)} |->
             CHOOSE i \in 1..Len(Alphabet) : Alphabet[i] = w]

Rank(w) == RankOf[w]

\* str.lower() on one word
Lower(w) == IF w = "KYC" THEN "kyc" ELSE w

LowerSeq(ws) == [i \in 1..Len(ws) |-> Lower(ws[i])]

\* stop_words='english': the members of sklearn's list among the model's words
StopWords == {"the", "your"}

\* w in v, on two words: the character-level substring test
WordIn(w, v) == w = v \/ (w = "office" /\ v = "officer")

(***************************************************************************)
(* Small sequence helpers.                                                 *)
(***************************************************************************)
Range(s) == {s[i] : i \in 1..Len(s)}

RECURSIVE FilterSeq(_, _)
FilterSeq(s, keep) ==
  IF s = << >> THEN << >>
  ELSE IF Head(s) \in keep THEN << Head(s) >> \o FilterSeq(Tail(s), keep)
       ELSE FilterSeq(Tail(s), keep)

\* the member of a one-element set; used to name a value that was computed once
Only(S) == CHOOSE x \in S : TRUE

Min2(a, b) == IF a <= b THEN a ELSE b
Max2(a, b) == IF a >= b THEN a ELSE b

\* Python's s[:k] for any integer k
SliceTo(s, k) ==
  LET n == Len(s)
      e == IF k >= 0 THEN Min2(k, n) ELSE Max2(n + k, 0)
  IN  SubSeq(s, 1, e)

\* floor of the square root
RECURSIVE ISqrtBin(_, _, _)
ISqrtBin(n, lo, hi) ==
  IF lo >= hi THEN lo
  ELSE LET mid == (lo + hi + 1) \div 2
       IN  IF mid * mid <= n THEN ISqrtBin(n, mid, hi) ELSE ISqrtBin(n, lo, mid - 1)

ISqrt(n) == ISqrtBin(n, 0, Min2(n, 46000))

(***************************************************************************)
(* TfidfVectorizer(max_features=1000, stop_words='english',                *)
(* ngram_range=(1, 2)).  A term is a sequence of one or two words.         *)
(***************************************************************************)
\* the analyzer: lower-case, tokenize, drop stop words, unigrams then bigrams
Analyze(text) ==
  LET toks == FilterSeq(LowerSeq(text), Range(LowerSeq(text)) \ StopWords)
      uni == [i \in 1..Len(toks) |-> << toks[i] >>]
      bi == [i \in 1..Max2(Len(toks) - 1, 0) |-> << toks[i], toks[i + 1] >>]
  IN  uni \o bi

\* string order of two terms (a space sorts before every letter)
TermLess(s, t) ==
  \/ Rank(s[1]) < Rank(t[1])
  \/ /\ s[1] = t[1]
     /\ \/ Len(s) < Len(t)
        \/ Len(s) = 2 /\ Len(t) = 2 /\ Rank(s[2]) < Rank(t[2])

RECURSIVE SortTerms(_)
SortTerms(S) ==
  IF S = {} THEN << >>
  ELSE LET m == CHOOSE x \in S : \A y \in S \ {x} : TermLess(x, y)
       IN  << m >> \o SortTerms(S \ {m})

\* number of occurrences of x in sequence s
Count(s, x) == Cardinality({i \in 1..Len(s) : s[i] = x})

\* 100 * (ln((1 + n) / (1 + df)) + 1), smooth_idf=True, rounded
IdfTable ==
  << << 100 >>,
     << 141, 100 >>,
     << 169, 129, 100 >>,
     << 192, 151, 122, 100 >>,
     << 210, 169, 141, 118, 100 >>,
     << 225, 185, 156, 134, 115, 100 >> >>

\* the state of a vectorizer that was never fitted
Unfitted == [fitted |-> FALSE, vocabulary |-> << >>, idf |-> << >>]

\* the fitted vectorizer for a list of texts (vocabulary_ in column order, idf_)
Fit(texts) ==
  LET n == Len(texts)
      terms == UNION {Range(Analyze(texts[i])) : i \in 1..n}
      vocab == SortTerms(terms)
      df(t) == Cardinality({i \in 1..n : t \in Range(Analyze(texts[i]))})
  IN  [fitted |-> TRUE,
       vocabulary |-> vocab,
       idf |-> [c \in 1..Len(vocab) |-> IdfTable[n][df(vocab[c])]]]

\* vectorizer.transform([text])[0]: term count times idf, one entry per column.
\* The row's L2 normalisation is left out: cosine_similarity normalises again,
\* so the scale of a row does not change any similarity.
Transform(vz, text) ==
  LET a == Analyze(text)
  IN  [c \in 1..Len(vz.vocabulary) |-> Count(a, vz.vocabulary[c]) * vz.idf[c]]

RECURSIVE DotFrom(_, _, _)
DotFrom(u, v, c) ==
  IF c > Len(u) THEN 0 ELSE u[c] * v[c] + DotFrom(u, v, c + 1)

Dot(u, v) == DotFrom(u, v, 1)

SimScale == 1000

\* cosine_similarity(u, v) * SimScale; a zero vector has similarity 0
Cosine(u, v) ==
  LET d == ISqrt(Dot(u, u)) * ISqrt(Dot(v, v))
  IN  IF d = 0 THEN 0 ELSE Min2(SimScale, (SimScale * Dot(u, v)) \div d)

(***************************************************************************)
(* Chunks of a corpus, as chunk_documents returns them.                    *)
(***************************************************************************)
\* len(text) of the words joined by single spaces
RECURSIVE CharCount(_)
CharCount(text) ==
  IF text = << >> THEN 0
  ELSE IF Len(text) = 1 THEN Len(text[1])
       ELSE Len(Head(text)) + 1 + CharCount(Tail(text))

\* chunk_document: chunk_id counts from 0 within each document
ChunkIdAt(kinds, i) ==
  Cardinality({j \in 1..(i - 1) : kinds[j].document = kinds[i].document})

\* chunk_documents: the chunks of all documents, one document after the other
MkChunks(kinds) ==
  [i \in 1..Len(kinds) |->
     [chunk_id |-> ChunkIdAt(kinds, i),
      document |-> kinds[i].document,
      text |-> kinds[i].text,
      char_count |-> CharCount(kinds[i].text)]]

Corpora == {MkChunks(k) : k \in {kk \in CorpusPool : Len(kk) <= MaxChunks}}

(***************************************************************************)
(* Page texts, for the chunker.  A text is kept character by character as   *)
(* its runs: << [ch |-> "a", n |-> 150], [ch |-> "\n", n |-> 2] >> is 150   *)
(* times "a" and two newlines.  Neighbouring runs have different            *)
(* characters and no run is empty, so every string has one representation.  *)
(***************************************************************************)
Run(ch, n) == [ch |-> ch, n |-> n]

\* the characters str.strip(), str.split() and \s take for white space
Whitespace == {" ", "\n"}

\* len(t)
RECURSIVE TextLen(_)
TextLen(t) == IF t = << >> THEN 0 ELSE Head(t).n + TextLen(Tail(t))

\* s + t
Join(s, t) ==
  IF s = << >> THEN t
  ELSE IF t = << >> THEN s
  ELSE IF s[Len(s)].ch = t[1].ch
       THEN SubSeq(s, 1, Len(s) - 1) \o << Run(t[1].ch, s[Len(s)].n + t[1].n) >> \o Tail(t)
       ELSE s \o t

RECURSIVE LStrip(_)
LStrip(t) == IF t # << >> /\ Head(t).ch \in Whitespace THEN LStrip(Tail(t)) ELSE t

RECURSIVE RStrip(_)
RStrip(t) ==
  IF t # << >> /\ t[Len(t)].ch \in Whitespace THEN RStrip(SubSeq(t, 1, Len(t) - 1)) ELSE t

\* t.strip()
Strip(t) == RStrip(LStrip(t))

\* t without its first k characters, 0 <= k <= len(t)
RECURSIVE DropChars(_, _)
DropChars(t, k) ==
  IF k = 0 \/ t = << >> THEN t
  ELSE IF Head(t).n <= k THEN DropChars(Tail(t), k - Head(t).n)
       ELSE << Run(Head(t).ch, Head(t).n - k) >> \o Tail(t)

\* Python's t[i:] for any integer i
SliceFrom(t, i) ==
  LET n == TextLen(t)
      start == IF i < 0 THEN Max2(n + i, 0) ELSE Min2(i, n)
  IN  DropChars(t, start)

\* len(t.split()): the stretches of characters that are not white space
WordCount(t) ==
  Cardinality({i \in 1..Len(t) :
                 t[i].ch \notin Whitespace /\ (i = 1 \/ t[i - 1].ch \in Whitespace)})

\* the newlines in the white space t begins with
RECURSIVE NewlinesAhead(_)
NewlinesAhead(t) ==
  IF t = << >> \/ Head(t).ch \notin Whitespace THEN 0
  ELSE (IF Head(t).ch = "\n" THEN Head(t).n ELSE 0) + NewlinesAhead(Tail(t))

\* t from behind the last newline of the white space it begins with
RECURSIVE AfterLastNewline(_)
AfterLastNewline(t) == IF NewlinesAhead(t) = 0 THEN t ELSE AfterLastNewline(Tail(t))

\* re.split(r'\n\s*\n|\n{2,}', text): a match starts at a newline that has
\* another newline behind it with white space only in between, and the greedy
\* \s* takes it to the last such newline
RECURSIVE SplitFrom(_, _)
SplitFrom(piece, rest) ==
  IF rest = << >> THEN << piece >>
  ELSE IF Head(rest).ch = "\n" /\ NewlinesAhead(rest) >= 2
       THEN << piece >> \o SplitFrom(<< >>, AfterLastNewline(rest))
       ELSE SplitFrom(piece \o << Head(rest) >>, Tail(rest))

\* _split_into_paragraphs: [p.strip() + '\n\n' for p in paragraphs if p.strip()]
SplitIntoParagraphs(text) ==
  LET pieces == SplitFrom(<< >>, text)
      kept == FilterSeq(pieces, {x \in Range(pieces) : Strip(x) # << >>})
  IN  [i \in 1..Len(kept) |-> Join(Strip(kept[i]), << Run("\n", 2) >>)]

(***************************************************************************)
(* State.                                                                  *)
(***************************************************************************)
VARIABLES
  chunks,       \* VectorStore.chunks
  vectorizer,   \* VectorStore.vectorizer: [fitted, vocabulary, idf]
  vectors,      \* VectorStore.vectors: [none, rows]
  is_indexed,   \* VectorStore.is_indexed
  disk,         \* the pickle file save writes and load reads
  out,          \* the last completed call: its arguments and what it returned or raised
  build,        \* a running add_chunks: [pc]
  reader,       \* a running search: its position, arguments and what it has read
  chunker       \* a run of chunk_documents: its input, its position and its locals

store == << chunks, vectorizer, vectors, is_indexed >>
vars == << chunks, vectorizer, vectors, is_indexed, disk, out, build, reader, chunker >>

\* self.vectors = None
NoVectors == [none |-> TRUE, rows |-> << >>]

NoFile == [exists |-> FALSE, chunks |-> << >>, vectorizer |-> Unfitted, vectors |-> NoVectors]

Call(op, query, k, threshold, filter, status, value, candidates) ==
  [op |-> op, query |-> query, k |-> k, threshold |-> threshold, filter |-> filter,
   status |-> status, value |-> value, candidates |-> candidates]

NoCall == Call("none", << >>, 0, 0, None, "ok", << >>, << >>)

BuildIdle == [pc |-> "idle"]

\* pc: where the search stands; qv: the query vector; vs: self.vectors as read;
\* sims: the similarities; cs: self.chunks as read by the loop
ReaderIdle ==
  [pc |-> "idle", query |-> << >>, top_k |-> 0, threshold |-> 0,
   qv |-> << >>, vs |-> NoVectors, sims |-> << >>, cs |-> << >>]

\* no chunking run
ChunkerIdle == [pc |-> "idle"]

\* VectorStore.__init__, no file saved, no call made
Init ==
  /\ chunks = << >>
  /\ vectorizer = Unfitted
  /\ vectors = NoVectors
  /\ is_indexed = FALSE
  /\ disk = NoFile
  /\ out = NoCall
  /\ build = BuildIdle
  /\ reader = ReaderIdle
  /\ chunker = ChunkerIdle

(***************************************************************************)
(* VectorStore.add_chunks and _build_index.                                *)
(***************************************************************************)
Texts(cs) == [i \in 1..Len(cs) |-> cs[i].text]

\* self.vectorizer.fit_transform(texts): the rows of the chunks
Rows(vz, cs) == [none |-> FALSE, rows |-> [i \in 1..Len(cs) |-> Transform(vz, cs[i].text)]]

\* the vectorizer fitted on each chunk list add_chunks may be given
Fitted == [cs \in Corpora |-> Fit(Texts(cs))]

\* fit_transform raises ValueError (empty vocabulary) when every text holds
\* stop words only
FitFails(cs) == Fitted[cs].vocabulary = << >>

\* The vectorizer after a failed fit_transform: vocabulary_ is kept; whether the
\* idf weights are kept depends on the library version (the tf-idf transformer
\* is replaced before the fit, or not).
AfterFailedFit(vz) == {vz, [vz EXCEPT !.fitted = FALSE]}

\* if not self.chunks: return
SkipsBuild(cs) == cs = << >>

AddChunks(cs) ==
  /\ build.pc = "idle" /\ reader.pc = "idle"
  /\ chunks' = cs
  /\ IF SkipsBuild(cs)
     THEN /\ UNCHANGED << vectorizer, vectors, is_indexed >>
          /\ out' = Call("add_chunks", << >>, 0, 0, None, "ok", << >>, << >>)
     ELSE IF FitFails(cs)
     THEN /\ vectorizer' \in AfterFailedFit(vectorizer)
          /\ UNCHANGED << vectors, is_indexed >>
          /\ out' = Call("add_chunks", << >>, 0, 0, None, "ValueError", << >>, << >>)
     ELSE /\ vectorizer' = Fitted[cs]
          /\ vectors' = Rows(Fitted[cs], cs)
          /\ is_indexed' = TRUE
          /\ out' = Call("add_chunks", << >>, 0, 0, None, "ok", << >>, << >>)
  /\ UNCHANGED << disk, build, reader, chunker >>

(***************************************************************************)
(* VectorStore.save and load.                                              *)
(***************************************************************************)
\* pickle.dump of chunks, vectorizer and vectors (is_indexed is not saved)
Pickle(cs, vz, vs) == [exists |-> TRUE, chunks |-> cs, vectorizer |-> vz, vectors |-> vs]

Save ==
  /\ build.pc = "idle" /\ reader.pc = "idle"
  /\ disk' = Pickle(chunks, vectorizer, vectors)
  /\ out' = Call("save", << >>, 0, 0, None, "ok", << >>, << >>)
  /\ UNCHANGED << store, build, reader, chunker >>

Load ==
  /\ build.pc = "idle" /\ reader.pc = "idle"
  /\ IF ~disk.exists
     THEN /\ out' = Call("load", << >>, 0, 0, None, "FileNotFoundError", << >>, << >>)
          /\ UNCHANGED store
     ELSE /\ chunks' = disk.chunks
          /\ vectorizer' = disk.vectorizer
          /\ vectors' = disk.vectors
          /\ is_indexed' = TRUE
          /\ out' = Call("load", << >>, 0, 0, None, "ok", << >>, << >>)
  /\ UNCHANGED << disk, build, reader, chunker >>

(***************************************************************************)
(* VectorStore.search.                                                     *)
(***************************************************************************)
Perms(n) == {p \in [1..n -> 1..n] : \A i, j \in 1..n : i # j => p[i] # p[j]}

Result(status, value) == [status |-> status, value |-> value]

\* what vectorizer.transform or cosine_similarity raises, "ok" if nothing
QueryError(vz, vs) ==
  IF ~vz.fitted THEN "NotFittedError"
  ELSE IF vs.none THEN "ValueError"
  ELSE IF \E i \in 1..Len(vs.rows) : Len(vs.rows[i]) # Len(vz.vocabulary) THEN "ValueError"
  ELSE "ok"

\* cosine_similarity(query_vector, self.vectors)[0]
Similarities(vz, vs, query) ==
  IF QueryError(vz, vs) # "ok" THEN << >>
  ELSE Only({ [i \in 1..Len(vs.rows) |-> Cosine(query_vector, vs.rows[i])] :
              query_vector \in {Transform(vz, query)} })

\* np.argsort(similarities)[::-1]: positions by similarity, highest first.  The
\* default sort kind is not stable, so equal similarities come in any order.
ArgsortDesc(sims) ==
  {p \in Perms(Len(sims)) : \A i, j \in 1..Len(sims) : i < j => sims[p[i]] >= sims[p[j]]}

\* the comparison the wrong way round
PassesThresholdFlipped(similarity, threshold) == similarity <= threshold

\* if similarity >= threshold
PassesThreshold(similarity, threshold) == similarity >= threshold

\* a slice one too long
TopIndicesOneMore(order, top_k) == SliceTo(order, top_k + 1)

\* [:top_k]
TopIndices(order, top_k) == SliceTo(order, top_k)

\* the stored dictionary itself, not a copy
AliasOf(idx) == idx

\* self.chunks[idx].copy(): a new dictionary.  `owner` of a result is the place
\* in self.chunks of the dictionary the result is, 0 for a dictionary of its own
CopyOf(idx) == 0

\* the loop over top_indices: a copy of each chunk with its similarity
SearchLoop(cs, sims, top, threshold) ==
  Only({ IF \E h \in 1..Len(hits) : hits[h] > Len(cs)
         THEN Result("IndexError", << >>)
         ELSE Result("ok", [h \in 1..Len(hits) |->
                              [chunk |-> cs[hits[h]], score |-> sims[hits[h]],
                               owner |-> CopyOf(hits[h])]])
         : hits \in {FilterSeq(top, {i \in 1..Len(sims) :
                                        PassesThreshold(sims[i], threshold)})} })

\* search on a store holding (cs, vz, vs, indexed); sims are the similarities
\* of the query and `order` is what argsort gave for them
SearchResult(cs, vz, vs, indexed, sims, top_k, threshold, order) ==
  IF ~indexed THEN Result("ok", << >>)
  ELSE IF QueryError(vz, vs) # "ok" THEN Result(QueryError(vz, vs), << >>)
  ELSE SearchLoop(cs, sims, TopIndices(order, top_k), threshold)

Search ==
  /\ build.pc = "idle" /\ reader.pc = "idle"
  /\ \E query \in Queries :
       \E sims \in {Similarities(vectorizer, vectors, query)} :
          \E order \in ArgsortDesc(sims), top_k \in 1..MaxTopK, threshold \in Thresholds :
             \E r \in {SearchResult(chunks, vectorizer, vectors, is_indexed,
                                    sims, top_k, threshold, order)} :
                out' = Call("search", query, top_k, threshold, None,
                            r.status, r.value, << >>)
  /\ UNCHANGED << store, disk, build, reader, chunker >>

(***************************************************************************)
(* Retriever.                                                              *)
(***************************************************************************)
\* the enhancements table of _enhance_query, in its order
Enhancements ==
  << [key |-> "address", expansion |-> << "address", "registered", "office", "location" >>],
     [key |-> "director", expansion |-> << "director", "board", "member", "officer" >>],
     [key |-> "kyc", expansion |-> << "kyc", "know", "your", "customer", "verification" >>],
     [key |-> "document", expansion |-> << "document", "form", "certificate" >>] >>

\* key in query_lower
KeyIn(key, query) == \E j \in 1..Len(query) : WordIn(key, Lower(query[j]))

\* a loop without the break: the last key found wins
EnhanceQueryLast(query) ==
  LET found == {i \in 1..Len(Enhancements) : KeyIn(Enhancements[i].key, query)}
  IN  IF found = {} THEN query
      ELSE query \o Enhancements[CHOOSE i \in found : \A j \in found : i >= j].expansion

\* _enhance_query: the query, a space, the expansion of the first key found
EnhanceQuery(query) ==
  LET found == {i \in 1..Len(Enhancements) : KeyIn(Enhancements[i].key, query)}
  IN  IF found = {} THEN query
      ELSE query \o Enhancements[CHOOSE i \in found : \A j \in found : i <= j].expansion

\* the words of the queries given to _enhance_query alone
EnhanceWords == {"address", "director", "KYC", "document", "office", "bank"}

RECURSIVE SeqsUpTo(_, _)
SeqsUpTo(S, n) ==
  IF n = 0 THEN {<< >>}
  ELSE LET shorter == SeqsUpTo(S, n - 1)
       IN  shorter \cup {Append(q, w) : q \in shorter, w \in S}

EnhanceQueries == SeqsUpTo(EnhanceWords, MaxEnhanceLen)

\* a call of _enhance_query
Enhance ==
  /\ build.pc = "idle" /\ reader.pc = "idle"
  /\ \E query \in EnhanceQueries :
       out' = Call("enhance", query, 0, 0, None, "ok", EnhanceQuery(query), << >>)
  /\ UNCHANGED << store, disk, build, reader, chunker >>

\* if filter_document: (None and the empty string are both false)
FilterApplies(filter) == filter # None /\ filter # ""

FilterByDocument(results, filter) ==
  IF FilterApplies(filter)
  THEN FilterSeq(results, {r \in Range(results) : r.chunk.document = filter})
  ELSE results

\* set(query.lower().split())
QueryTerms(query) == Range(LowerSeq(query))

\* query.lower() in text_lower: the words of the query, joined by spaces, occur
\* in the text: the first word ends a word of the text, the last begins one
PhraseIn(query, text) ==
  LET q == LowerSeq(query)
      t == LowerSeq(text)
      n == Len(q)
  IN  IF n = 0 THEN TRUE
      ELSE IF n = 1 THEN \E i \in 1..Len(t) : WordIn(q[1], t[i])
      ELSE \E i \in 1..(Len(t) - n + 1) :
              /\ q[1] = t[i]
              /\ \A j \in 2..(n - 1) : q[j] = t[i + j - 1]
              /\ WordIn(q[n], t[i + n - 1])

\* sum(1 for term in query_terms if term in text_lower)
TermMatches(query, text) ==
  Cardinality({term \in QueryTerms(query) :
                 \E i \in 1..Len(text) : WordIn(term, Lower(text[i]))})

ScoreScale == 100000
PhraseBonus == 20000     \* 0.2
TermBonus == 10000       \* 0.1
LengthBonus == 5         \* 0.05 / 1000 per character
LengthCap == 1000

\* the score without the phrase bonus
FinalScoreNoPhrase(query, chunk, base_score) ==
  base_score * (ScoreScale \div SimScale)
  + (TermMatches(query, chunk.text) * TermBonus) \div Cardinality(QueryTerms(query))
  + Min2(chunk.char_count, LengthCap) * LengthBonus

\* final_score = base_score + phrase_bonus + term_bonus + length_factor
FinalScore(query, chunk, base_score) ==
  base_score * (ScoreScale \div SimScale)
  + (IF PhraseIn(query, chunk.text) THEN PhraseBonus ELSE 0)
  + (TermMatches(query, chunk.text) * TermBonus) \div Cardinality(QueryTerms(query))
  + Min2(chunk.char_count, LengthCap) * LengthBonus

\* an insertion that puts a new entry in front of its equals
RECURSIVE InsertBeforeEquals(_, _)
InsertBeforeEquals(sorted, x) ==
  IF sorted = << >> THEN << x >>
  ELSE IF Head(sorted).score > x.score
       THEN << Head(sorted) >> \o InsertBeforeEquals(Tail(sorted), x)
       ELSE << x >> \o sorted

\* list.sort(key=score, reverse=True): stable, equal scores keep their order
RECURSIVE InsertByScore(_, _)
InsertByScore(sorted, x) ==
  IF sorted = << >> THEN << x >>
  ELSE IF Head(sorted).score >= x.score
       THEN << Head(sorted) >> \o InsertByScore(Tail(sorted), x)
       ELSE << x >> \o sorted

RECURSIVE SortFrom(_, _, _)
SortFrom(sorted, s, i) ==
  IF i > Len(s) THEN sorted
  ELSE Only({ SortFrom(next, s, i + 1) : next \in {InsertByScore(sorted, s[i])} })

SortByScore(s) == SortFrom(<< >>, s, 1)

\* _rerank_results
Rerank(query, results) ==
  IF results = << >> THEN Result("ok", << >>)
  ELSE IF QueryTerms(query) = {} THEN Result("ZeroDivisionError", << >>)
  ELSE Result("ok",
         Only({ SortByScore(scored_results) :
                scored_results \in
                  {[i \in 1..Len(results) |->
                      [chunk |-> results[i].chunk,
                       score |-> FinalScore(query, results[i].chunk, results[i].score),
                       owner |-> results[i].owner]]} }))

\* reranked[:max_results]
Truncate(reranked, max_results) == SliceTo(reranked, max_results)

\* chunk['relevance_score'] = score, on the copy search made
Formatted(reranked) ==
  [i \in 1..Len(reranked) |->
     [chunk_id |-> reranked[i].chunk.chunk_id,
      document |-> reranked[i].chunk.document,
      text |-> reranked[i].chunk.text,
      char_count |-> reranked[i].chunk.char_count,
      relevance_score |-> reranked[i].score]]

\* chunk['relevance_score'] = score, seen from self.chunks: a stored dictionary
\* that is one of the results gets the key (the last score written stays)
WriteScores(cs, reranked) ==
  [i \in 1..Len(cs) |->
     LET hits == {e \in 1..Len(reranked) : reranked[e].owner = i}
     IN  IF hits = {} THEN cs[i]
         ELSE [chunk_id |-> cs[i].chunk_id,
               document |-> cs[i].document,
               text |-> cs[i].text,
               char_count |-> cs[i].char_count,
               relevance_score |-> reranked[CHOOSE e \in hits : \A f \in hits : f <= e].score]]

\* the rerank of the candidates and the cut to max_results; `written` are the
\* results the loop over reranked[:max_results] wrote a score to
RankAndCut(query, max_results, candidates) ==
  Only({ IF reranked.status # "ok"
         THEN [status |-> reranked.status, value |-> << >>, candidates |-> candidates,
               written |-> << >>]
         ELSE [status |-> "ok",
               value |-> Formatted(Truncate(reranked.value, max_results)),
               candidates |-> candidates,
               written |-> Truncate(reranked.value, max_results)]
         : reranked \in {Rerank(query, candidates)} })

\* retrieve, given what search returned or raised
RetrieveResult(query, max_results, filter, found) ==
  IF found.status # "ok"
  THEN [status |-> found.status, value |-> << >>, candidates |-> << >>, written |-> << >>]
  ELSE Only({ RankAndCut(query, max_results, candidates) :
              candidates \in {FilterByDocument(found.value, filter)} })

Retrieve ==
  /\ build.pc = "idle" /\ reader.pc = "idle"
  /\ \E query \in Queries :
       \E sims \in {Similarities(vectorizer, vectors, EnhanceQuery(query))} :
          \E order \in ArgsortDesc(sims), max_results \in (-1)..MaxTopK,
             threshold \in Thresholds, filter \in Filters :
             \E found \in {SearchResult(chunks, vectorizer, vectors, is_indexed,
                                        sims, max_results * 2, threshold, order)} :
                \E r \in {RetrieveResult(query, max_results, filter, found)} :
                   /\ out' = Call("retrieve", query, max_results, threshold, filter,
                                  r.status, r.value, r.candidates)
                   /\ chunks' = WriteScores(chunks, r.written)
  /\ UNCHANGED << vectorizer, vectors, is_indexed, disk, build, reader, chunker >>

(***************************************************************************)
(* add_chunks and search running at the same time, statement by statement. *)
(* Nothing in VectorStore locks, so the statements of the two interleave.  *)
(***************************************************************************)
\* the chunk lists a concurrent rebuild is given: those that build an index
BuildableCorpora == {cs \in Corpora : ~SkipsBuild(cs) /\ ~FitFails(cs)}

\* the searches run next to a rebuild
ConcQueries == {q \in Queries : Len(q) = 1}

\* self.chunks = chunks
BuildAssignChunks(cs) ==
  /\ build.pc = "idle"
  /\ chunks' = cs
  /\ build' = [pc |-> "build_index"]
  /\ UNCHANGED << vectorizer, vectors, is_indexed, disk, out, reader, chunker >>

\* if not self.chunks: return; fit_transform fits the vectorizer in place
BuildFit ==
  /\ build.pc = "build_index"
  /\ IF SkipsBuild(chunks)
     THEN /\ build' = BuildIdle
          /\ UNCHANGED vectorizer
     ELSE IF FitFails(chunks)
     THEN /\ build' = BuildIdle
          /\ vectorizer' \in AfterFailedFit(vectorizer)
     ELSE /\ build' = [pc |-> "assign_vectors"]
          /\ vectorizer' = Fitted[chunks]
  /\ UNCHANGED << chunks, vectors, is_indexed, disk, out, reader, chunker >>

\* self.vectors = <the rows fit_transform returned>
BuildAssignVectors ==
  /\ build.pc = "assign_vectors"
  /\ vectors' = Rows(vectorizer, chunks)
  /\ build' = [pc |-> "set_indexed"]
  /\ UNCHANGED << chunks, vectorizer, is_indexed, disk, out, reader, chunker >>

\* self.is_indexed = True
BuildSetIndexed ==
  /\ build.pc = "set_indexed"
  /\ is_indexed' = TRUE
  /\ build' = BuildIdle
  /\ UNCHANGED << chunks, vectorizer, vectors, disk, out, reader, chunker >>

\* if not self.is_indexed: return []
ReadIndexed ==
  /\ reader.pc = "idle"
  /\ \E query \in ConcQueries :
       IF is_indexed
       THEN /\ reader' = [ReaderIdle EXCEPT !.pc = "transform", !.query = query,
                                            !.top_k = MaxTopK, !.threshold = 0]
            /\ UNCHANGED out
       ELSE /\ reader' = [ReaderIdle EXCEPT !.query = query, !.top_k = MaxTopK]
            /\ out' = Call("search", query, MaxTopK, 0, None, "ok", << >>, << >>)
  /\ UNCHANGED << store, disk, build, chunker >>

ReaderFails(status) ==
  /\ reader' = [reader EXCEPT !.pc = "idle"]
  /\ out' = Call("search", reader.query, reader.top_k, reader.threshold, None,
                 status, << >>, << >>)

\* query_vector = self.vectorizer.transform([query])
ReadTransform ==
  /\ reader.pc = "transform"
  /\ IF ~vectorizer.fitted
     THEN ReaderFails("NotFittedError")
     ELSE /\ reader' = [reader EXCEPT !.pc = "similarity",
                                      !.qv = Transform(vectorizer, reader.query)]
          /\ UNCHANGED out
  /\ UNCHANGED << store, disk, build, chunker >>

\* similarities = cosine_similarity(query_vector, self.vectors)[0]
ReadVectors ==
  /\ reader.pc = "similarity"
  /\ IF vectors.none \/ \E i \in 1..Len(vectors.rows) : Len(vectors.rows[i]) # Len(reader.qv)
     THEN ReaderFails("ValueError")
     ELSE /\ reader' = [reader EXCEPT
                          !.pc = "loop",
                          !.vs = vectors,
                          !.sims = [i \in 1..Len(vectors.rows) |->
                                      Cosine(reader.qv, vectors.rows[i])]]
          /\ UNCHANGED out
  /\ UNCHANGED << store, disk, build, chunker >>

\* the argsort and the loop, which reads self.chunks
ReadChunks ==
  /\ reader.pc = "loop"
  /\ \E order \in ArgsortDesc(reader.sims) :
       \E r \in {SearchLoop(chunks, reader.sims, TopIndices(order, reader.top_k),
                             reader.threshold)} :
           /\ out' = Call("search", reader.query, reader.top_k, reader.threshold, None,
                          r.status, r.value, << >>)
           /\ reader' = [reader EXCEPT !.pc = "idle", !.cs = chunks]
  /\ UNCHANGED << store, disk, build, chunker >>

(***************************************************************************)
(* The chunker: chunk_documents, TextChunker.chunk_document, _chunk_page    *)
(* and _create_chunk, statement by statement.                               *)
(***************************************************************************)
\* config.py
CHUNK_SIZE == 2000
CHUNK_OVERLAP == 300
MIN_CHUNK_SIZE == 100

Config(size, overlap, min) ==
  [chunk_size |-> size, chunk_overlap |-> overlap, min_chunk_size |-> min]

\* TextChunker(): the chunker chunk_documents makes
DefaultConfig == Config(CHUNK_SIZE, CHUNK_OVERLAP, MIN_CHUNK_SIZE)

\* the chunkers tried: the default one and TextChunker(chunk_size,
\* chunk_overlap, min_chunk_size) with small sizes, without overlap and
\* without a minimum, and with an overlap wider than a chunk
Configs ==
  { DefaultConfig, Config(200, 50, 120), Config(200, 0, 0), Config(100, 300, 0) }

\* paragraph texts: 150 times "a", 50 times "b"
TextA == << Run("a", 150) >>
TextB == << Run("b", 50) >>
Blank == << Run("\n", 2) >>

PageEmpty == << >>
PageBlank == << Run(" ", 1), Run("\n", 2) >>
PageA == TextA
PageB == TextB
PageAB == Join(TextA, Join(Blank, TextB))
\* white space around the paragraphs and inside the separator
PageBA ==
  << Run(" ", 1), Run("b", 50), Run("\n", 1), Run(" ", 1), Run("\n", 1),
     Run("a", 150), Run("\n", 1) >>
\* a single newline does not end a paragraph
PageLines == << Run("a", 100), Run("\n", 1), Run("b", 50) >>
PageABA == Join(PageAB, Join(Blank, TextA))
PageAAB == Join(TextA, Join(Blank, PageAB))
PageABAB == Join(PageAB, Join(Blank, PageAB))
PageAAAB == Join(TextA, Join(Blank, PageAAB))

PagePool ==
  { PageEmpty, PageBlank, PageA, PageB, PageAB, PageBA, PageLines,
    PageABA, PageAAB, PageABAB, PageAAAB }

Pages == {p \in PagePool : Len(SplitIntoParagraphs(p)) <= MaxParas}

\* the page texts of a document, in page order
PageListPool ==
  {<< p >> : p \in Pages}
    \cup { << PageA, PageAB >>, << PageEmpty, PageA >>, << PageAB, PageBA, PageA >> }

PageLists == {ps \in PageListPool : Len(ps) <= MaxPages}

\* document_data: file_name and pages; page i has page_number i
Doc(name, texts) ==
  [file_name |-> name,
   pages |-> [i \in 1..Len(texts) |-> [text |-> texts[i], page_number |-> i]]]

DocListPool ==
  {<< >>}
    \cup {<< Doc("X", ps) >> : ps \in PageLists}
    \cup {<< Doc("X", ps), Doc("Y", qs) >> : ps \in PageLists, qs \in {<< PageA >>, << PageB >>}}
    \cup {<< Doc("X", << PageA >>), Doc("Y", << PageAB >>), Doc("Z", << PageA >>) >>}

DocLists == {ds \in DocListPool : Len(ds) <= MaxDocs}

\* _create_chunk
CreateChunk(text, page_number, source, start_pos) ==
  [text |-> Strip(text),
   page_number |-> page_number,
   source |-> source,
   start_position |-> start_pos,
   char_count |-> TextLen(Strip(text)),
   word_count |-> WordCount(Strip(text))]

\* chunk['chunk_id'] = chunk_id; chunk['document'] = document_data['file_name']
Tagged(chunk, chunk_id, file_name) ==
  [text |-> chunk.text,
   page_number |-> chunk.page_number,
   source |-> chunk.source,
   start_position |-> chunk.start_position,
   char_count |-> chunk.char_count,
   word_count |-> chunk.word_count,
   chunk_id |-> chunk_id,
   document |-> file_name]

\* chunk_documents(documents) at its first statement, with the chunker it made
StartRun(documents, config) ==
  [pc |-> "documents",
   config |-> config,
   docs |-> documents,          \* the documents still to chunk
   corpus |-> << >>,            \* all_chunks of chunk_documents
   file_name |-> "",
   pages |-> << >>,             \* the pages still to chunk
   all_chunks |-> << >>,        \* all_chunks of chunk_document
   chunk_id |-> 0,
   page_number |-> 0,
   paragraphs |-> << >>,
   next |-> 1,                  \* the paragraph the loop is at
   chunks |-> << >>,            \* chunks of _chunk_page
   current_chunk |-> << >>,
   current_start |-> 0]

InitChunk ==
  /\ chunks = << >>
  /\ vectorizer = Unfitted
  /\ vectors = NoVectors
  /\ is_indexed = FALSE
  /\ disk = NoFile
  /\ out = NoCall
  /\ build = BuildIdle
  /\ reader = ReaderIdle
  /\ chunker \in {StartRun(ds, c) : ds \in DocLists, c \in Configs}

\* for doc in documents: chunker.chunk_document(doc), up to its loop
ChunkDocument ==
  /\ chunker.pc = "documents" /\ chunker.docs # << >>
  /\ chunker' = [chunker EXCEPT !.pc = "pages",
                                !.docs = Tail(@),
                                !.file_name = Head(chunker.docs).file_name,
                                !.pages = Head(chunker.docs).pages,
                                !.all_chunks = << >>,
                                !.chunk_id = 0]
  /\ UNCHANGED << store, disk, out, build, reader >>

\* for page_data in document_data['pages']: _chunk_page, up to its loop
ChunkPage ==
  /\ chunker.pc = "pages" /\ chunker.pages # << >>
  /\ chunker' = [chunker EXCEPT !.pc = "paragraphs",
                                !.pages = Tail(@),
                                !.page_number = Head(chunker.pages).page_number,
                                !.paragraphs = SplitIntoParagraphs(Head(chunker.pages).text),
                                !.next = 1,
                                !.chunks = << >>,
                                !.current_chunk = << >>,
                                !.current_start = 0]
  /\ UNCHANGED << store, disk, out, build, reader >>

\* a new chunk that forgets the paragraph
NewBufferOverlapOnly(current_chunk, para, chunk_overlap) ==
  IF TextLen(current_chunk) > chunk_overlap
  THEN SliceFrom(current_chunk, 0 - chunk_overlap)
  ELSE para

\* Start new chunk with overlap: current_chunk[-self.chunk_overlap:] + para, or para
NewBuffer(current_chunk, para, chunk_overlap) ==
  IF TextLen(current_chunk) > chunk_overlap
  THEN Join(SliceFrom(current_chunk, 0 - chunk_overlap), para)
  ELSE para

\* if len(current_chunk) + len(para) > self.chunk_size
Exceeds(current_chunk, para, chunk_size) ==
  TextLen(current_chunk) + TextLen(para) > chunk_size

\* one turn of the loop over the paragraphs
ConsumeParagraph ==
  /\ chunker.pc = "paragraphs" /\ chunker.next <= Len(chunker.paragraphs)
  /\ LET c == chunker.config
         para == chunker.paragraphs[chunker.next]
         cur == chunker.current_chunk
         new == NewBuffer(cur, para, c.chunk_overlap)
     IN  IF Exceeds(cur, para, c.chunk_size)
         THEN chunker' =
                [chunker EXCEPT
                   !.chunks = IF Strip(cur) # << >>
                              THEN Append(@, CreateChunk(cur, chunker.page_number,
                                                         chunker.file_name,
                                                         chunker.current_start))
                              ELSE @,
                   !.current_chunk = new,
                   !.current_start = @ + TextLen(new) - c.chunk_overlap,
                   !.next = @ + 1]
         ELSE chunker' = [chunker EXCEPT !.current_chunk = Join(cur, para),
                                         !.next = @ + 1]
  /\ UNCHANGED << store, disk, out, build, reader >>

\* if len(current_chunk.strip()) >= self.min_chunk_size
KeepsRemaining(current_chunk, min_chunk_size) ==
  TextLen(Strip(current_chunk)) >= min_chunk_size

\* the chunks _chunk_page returns
PageChunks(ck) ==
  IF KeepsRemaining(ck.current_chunk, ck.config.min_chunk_size)
  THEN Append(ck.chunks, CreateChunk(ck.current_chunk, ck.page_number, ck.file_name,
                                     ck.current_start))
  ELSE ck.chunks

\* Add remaining chunk and return; chunk_document then numbers the chunks of
\* the page and appends them to all_chunks
ReturnPage ==
  /\ chunker.pc = "paragraphs" /\ chunker.next > Len(chunker.paragraphs)
  /\ LET page_chunks == PageChunks(chunker)
     IN  chunker' =
           [chunker EXCEPT
              !.pc = "pages",
              !.chunks = page_chunks,
              !.all_chunks = @ \o [i \in 1..Len(page_chunks) |->
                                     Tagged(page_chunks[i], chunker.chunk_id + i - 1,
                                            chunker.file_name)],
              !.chunk_id = @ + Len(page_chunks)]
  /\ UNCHANGED << store, disk, out, build, reader >>

\* return all_chunks; all_chunks.extend(doc_chunks)
ReturnDocument ==
  /\ chunker.pc = "pages" /\ chunker.pages = << >>
  /\ chunker' = [chunker EXCEPT !.pc = "documents",
                                !.corpus = @ \o chunker.all_chunks]
  /\ UNCHANGED << store, disk, out, build, reader >>

\* return all_chunks, of chunk_documents
ReturnCorpus ==
  /\ chunker.pc = "documents" /\ chunker.docs = << >>
  /\ chunker' = [chunker EXCEPT !.pc = "done"]
  /\ UNCHANGED << store, disk, out, build, reader >>

(***************************************************************************)
(* Specifications.                                                         *)
(***************************************************************************)
\* the store's life: build, save, load, one call at a time
Next ==
  \/ \E cs \in Corpora : AddChunks(cs)
  \/ Save
  \/ Load

Spec == Init /\ [][Next]_vars

\* searches over any store add_chunks leaves behind
NextSearch ==
  \/ \E cs \in Corpora : AddChunks(cs)
  \/ Search

SpecSearch == Init /\ [][NextSearch]_vars

\* retrieval over any store add_chunks leaves behind
NextRetrieve ==
  \/ \E cs \in Corpora : AddChunks(cs)
  \/ Retrieve

SpecRetrieve == Init /\ [][NextRetrieve]_vars

\* a rebuild and a search, interleaved
NextConc ==
  \/ \E cs \in BuildableCorpora : BuildAssignChunks(cs)
  \/ BuildFit
  \/ BuildAssignVectors
  \/ BuildSetIndexed
  \/ ReadIndexed
  \/ ReadTransform
  \/ ReadVectors
  \/ ReadChunks

SpecConc == Init /\ [][NextConc]_vars

\* query enhancement alone
NextEnhance == Enhance

SpecEnhance == Init /\ [][NextEnhance]_vars

\* chunking runs
NextChunk ==
  \/ ChunkDocument
  \/ ChunkPage
  \/ ConsumeParagraph
  \/ ReturnPage
  \/ ReturnDocument
  \/ ReturnCorpus

SpecChunk == InitChunk /\ [][NextChunk]_vars

(***************************************************************************)
(* Properties.                                                             *)
(***************************************************************************)
\* the index is the one a build made of the chunks the store holds
Built ==
  /\ is_indexed
  /\ chunks # << >>
  /\ vectorizer = Fit(Texts(chunks))
  /\ vectors = Rows(vectorizer, chunks)

IsSearch == out.op = "search"
IsRetrieve == out.op = "retrieve"

Injective(p) == \A i, j \in DOMAIN p : i # j => p[i] # p[j]

\* C1: add_chunks([]) raises EmptyCorpusError and leaves the index not built,
\* and a search that follows returns an empty sequence, not an error.
C1_EmptyCorpusRaises ==
  /\ (out.op = "add_chunks" /\ chunks = << >>)
        => (out.status = "EmptyCorpusError" /\ ~is_indexed)
  /\ (IsSearch /\ chunks = << >>) => (out.status = "ok" /\ out.value = << >>)

\* C2: whenever the index reports itself built, there are as many vectors as
\* chunks and vector i is the vector of chunk i.
C2_VectorsAligned ==
  is_indexed =>
    /\ ~vectors.none
    /\ Len(vectors.rows) = Len(chunks)
    /\ vectors = Rows(vectorizer, chunks)

\* a search ran its loop to the end: reader.vs and reader.cs are what it read
SearchCompleted == IsSearch /\ reader.pc = "idle" /\ reader.cs # << >>

\* C3: a search running next to a rebuild never fails and never pairs the
\* chunks of one build with the vectors of another.
C3_NoTornSearch ==
  /\ IsSearch => out.status = "ok"
  /\ SearchCompleted => reader.vs = Rows(Fit(Texts(reader.cs)), reader.cs)

\* the similarities of the last call's query, in the store as it is
OutSims == Similarities(vectorizer, vectors, out.query)

\* C4: on a built index search returns min(top_k, number of chunks with
\* similarity >= threshold) results, each a chunk of the store with its
\* similarity, all >= threshold, in descending order, and no chunk left out
\* is more similar than one returned.
C4_TopKAboveThreshold ==
  (IsSearch /\ Built) =>
    LET n == Len(out.value)
        passing == {i \in 1..Len(chunks) : OutSims[i] >= out.threshold}
    IN  /\ out.status = "ok"
        /\ n = Min2(out.k, Cardinality(passing))
        /\ \A i \in 1..n : out.value[i].score >= out.threshold
        /\ \A i \in 1..(n - 1) : out.value[i].score >= out.value[i + 1].score
        /\ \E p \in [1..n -> 1..Len(chunks)] :
             /\ Injective(p)
             /\ \A i \in 1..n :
                  /\ out.value[i].chunk = chunks[p[i]]
                  /\ out.value[i].score = OutSims[p[i]]
             /\ \A c \in 1..Len(chunks) :
                  (\A i \in 1..n : p[i] # c) => \A i \in 1..n : OutSims[c] <= OutSims[p[i]]

C4_Witness ==
  /\ IsSearch /\ Built /\ out.status = "ok"
  /\ out.threshold > 0
  /\ Len(out.value) = 1
  /\ Len(chunks) = MaxChunks
  /\ \E i \in 1..Len(chunks) : OutSims[i] < out.threshold

\* C5: results of equal similarity come in ascending chunk_id order.
C5_TiesByChunkId ==
  (IsSearch /\ Built /\ out.status = "ok") =>
    \A i, j \in 1..Len(out.value) :
       (i < j /\ out.value[i].score = out.value[j].score)
          => out.value[i].chunk.chunk_id <= out.value[j].chunk.chunk_id

\* C6: for the same index, query and top_k, a search with a higher threshold
\* never returns more results than the search just made.
C6_ThresholdMonotone ==
  (IsSearch /\ Built /\ out.status = "ok") =>
    \A t2 \in Thresholds, order \in ArgsortDesc(OutSims) :
       t2 >= out.threshold =>
          Len(SearchResult(chunks, vectorizer, vectors, is_indexed,
                           OutSims, out.k, t2, order).value) <= Len(out.value)

C6_Witness ==
  /\ IsSearch /\ Built /\ out.status = "ok"
  /\ Len(out.value) = MaxTopK
  /\ \E t2 \in Thresholds, order \in ArgsortDesc(OutSims) :
        /\ t2 > out.threshold
        /\ Len(SearchResult(chunks, vectorizer, vectors, is_indexed,
                            OutSims, out.k, t2, order).value) < Len(out.value)

\* C7: retrieve with a filter_document never returns a chunk of another
\* document, whatever string the filter is.
C7_FilterCorrect ==
  (IsRetrieve /\ out.filter # None) =>
    \A i \in 1..Len(out.value) : out.value[i].document = out.filter

\* C8: retrieve with max_results <= 0 fails with InvalidArgumentError.
C8_NonPositiveMaxResults ==
  (IsRetrieve /\ out.k <= 0) => (out.status = "InvalidArgumentError" /\ out.value = << >>)

\* the enhanced query has no term of the vocabulary
NoOverlap(query) ==
  \A c \in 1..Len(vectorizer.vocabulary) :
     Transform(vectorizer, EnhanceQuery(query))[c] = 0

\* C9: on a built index, retrieve with an empty query or a query without a
\* term of the vocabulary returns an empty sequence and raises nothing.
C9_EmptyQueryEmptyResult ==
  (IsRetrieve /\ Built /\ out.k >= 1 /\ (out.query = << >> \/ NoOverlap(out.query)))
     => (out.status = "ok" /\ out.value = << >>)

\* the final score of candidate c of the last retrieve
CandidateScore(c) ==
  FinalScore(out.query, out.candidates[c].chunk, out.candidates[c].score)

\* C10: for max_results >= 1 retrieve returns the first max_results candidates
\* by descending final score, equal scores in the order search gave them, each
\* with relevance_score = final score.
C10_TopOfReranked ==
  (IsRetrieve /\ out.status = "ok" /\ out.k >= 1) =>
    LET n == Len(out.value)
        m == Len(out.candidates)
    IN  /\ n = Min2(out.k, m)
        /\ \A i \in 1..(n - 1) :
              out.value[i].relevance_score >= out.value[i + 1].relevance_score
        /\ \E p \in [1..n -> 1..m] :
             /\ \A i \in 1..n :
                  /\ out.value[i].relevance_score = CandidateScore(p[i])
                  /\ out.value[i].chunk_id = out.candidates[p[i]].chunk.chunk_id
                  /\ out.value[i].document = out.candidates[p[i]].chunk.document
                  /\ out.value[i].text = out.candidates[p[i]].chunk.text
             /\ \A i, j \in 1..n :
                  i < j => \/ CandidateScore(p[i]) > CandidateScore(p[j])
                           \/ CandidateScore(p[i]) = CandidateScore(p[j]) /\ p[i] < p[j]
             /\ \A c \in 1..m :
                  (\A i \in 1..n : p[i] # c) =>
                     \A i \in 1..n :
                        \/ CandidateScore(p[i]) > CandidateScore(c)
                        \/ CandidateScore(p[i]) = CandidateScore(c) /\ p[i] < c

\* the rerank moved the second candidate in front of the first, and a tie was kept
C10_Witness ==
  /\ IsRetrieve /\ out.status = "ok" /\ out.k >= 1
  /\ Len(out.candidates) = 2
  /\ Len(out.value) >= 1
  /\ CandidateScore(2) > CandidateScore(1)
  /\ out.value[1].relevance_score = CandidateScore(2)

\* the parts of a score the reranker adds to the similarity, for the query as
\* the caller gave it: term coverage (over the distinct terms) and length
TermPart(query, chunk) ==
  (10000 * Cardinality({t \in Range(LowerSeq(query)) :
                          \E i \in 1..Len(chunk.text) : WordIn(t, Lower(chunk.text[i]))}))
     \div Cardinality(Range(LowerSeq(query)))

LengthPart(chunk) == 5 * Min2(chunk.char_count, 1000)

\* the candidates of the last retrieve that value i may be
CandidatesOf(i) ==
  {c \in 1..Len(out.candidates) :
     /\ out.candidates[c].chunk.chunk_id = out.value[i].chunk_id
     /\ out.candidates[c].chunk.document = out.value[i].document
     /\ out.candidates[c].chunk.text = out.value[i].text}

\* C11: the score retrieve gives a chunk is made of the candidate and the
\* original query alone: similarity + 0.2 if the query is in the text
\* + 0.1 * (query terms in the text / query terms) + 0.05 * min(char_count / 1000, 1);
\* so with the query in the text it is strictly above the score without the
\* phrase bonus.
C11_RerankFormula ==
  (IsRetrieve /\ out.status = "ok") =>
    \A i \in 1..Len(out.value) :
       \E c \in CandidatesOf(i) :
          LET chunk == out.candidates[c].chunk
              rest == out.candidates[c].score * 100 + TermPart(out.query, chunk)
                        + LengthPart(chunk)
          IN  /\ PhraseIn(out.query, chunk.text)
                   => (out.value[i].relevance_score = rest + 20000
                       /\ out.value[i].relevance_score > rest)
              /\ ~PhraseIn(out.query, chunk.text) => out.value[i].relevance_score = rest

\* one chunk returned with the query in its text and one without, half of whose
\* terms match
C11_Witness ==
  /\ IsRetrieve /\ out.status = "ok" /\ Len(out.value) = 2
  /\ Len(out.query) = 2
  /\ PhraseIn(out.query, out.value[1].text)
  /\ ~PhraseIn(out.query, out.value[2].text)
  /\ TermPart(out.query, out.candidates[Only(CandidatesOf(2))].chunk) = 5000

\* chunk_documents has returned
ChunkingDone == chunker.pc = "done"

\* C12: over the whole corpus chunk_documents returns, chunk_id values are
\* unique and strictly increasing in emission order.
C12_ChunkIdsIncrease ==
  (ChunkingDone /\ chunker.config = DefaultConfig) =>
    \A i, j \in 1..Len(chunker.corpus) :
       i < j => chunker.corpus[i].chunk_id < chunker.corpus[j].chunk_id

\* a page is being chunked or has just been chunked
InPage == chunker.pc \in {"paragraphs", "pages"} /\ chunker.page_number > 0

\* no paragraph of the page is longer than chunk_size
ParagraphsFit ==
  \A i \in 1..Len(chunker.paragraphs) :
     TextLen(chunker.paragraphs[i]) <= chunker.config.chunk_size

\* C13: with chunk_size >= 1 and chunk_overlap >= 0, a chunk emitted from a
\* buffer that holds no paragraph longer than chunk_size has
\* char_count <= chunk_size + chunk_overlap.
C13_ChunkSizeBound ==
  (InPage /\ ParagraphsFit) =>
    \A i \in 1..Len(chunker.chunks) :
       chunker.chunks[i].char_count
          <= chunker.config.chunk_size + chunker.config.chunk_overlap

\* _chunk_page has returned: chunker.chunks is its result and current_chunk
\* the last buffer
PageReturned == chunker.pc = "pages" /\ chunker.page_number > 0

\* p occurs in t, character by character
Contains(t, p) ==
  LET n == Len(p)
  IN  IF n = 0 THEN TRUE
      ELSE IF n = 1 THEN \E i \in 1..Len(t) : t[i].ch = p[1].ch /\ t[i].n >= p[1].n
      ELSE \E i \in 1..(Len(t) - n + 1) :
              /\ t[i].ch = p[1].ch /\ t[i].n >= p[1].n
              /\ \A j \in 2..(n - 1) : t[i + j - 1] = p[j]
              /\ t[i + n - 1].ch = p[n].ch /\ t[i + n - 1].n >= p[n].n

\* paragraph i of the page is in the text of a chunk the page returned
Emitted(i) ==
  \E c \in 1..Len(chunker.chunks) :
     Contains(chunker.chunks[c].text, Strip(chunker.paragraphs[i]))

\* the last buffer of the page was below min_chunk_size and dropped
LastBufferDropped ==
  TextLen(Strip(chunker.current_chunk)) < chunker.config.min_chunk_size

\* C14: every paragraph of a page is in the text of a chunk the page returns,
\* unless it is in the last buffer of the page and that buffer was dropped for
\* being below min_chunk_size.
C14_Coverage ==
  PageReturned =>
    \A i \in 1..Len(chunker.paragraphs) :
       \/ Emitted(i)
       \/ /\ LastBufferDropped
          /\ Contains(chunker.current_chunk, Strip(chunker.paragraphs[i]))

\* a page that was split: its first paragraph is in a chunk, its last one only
\* in the dropped last buffer
C14_Witness ==
  /\ PageReturned
  /\ Len(chunker.paragraphs) >= 2
  /\ Len(chunker.chunks) >= 1
  /\ chunker.current_start > 0
  /\ Emitted(1)
  /\ ~Emitted(Len(chunker.paragraphs))
  /\ LastBufferDropped

\* what search(query, top_k, threshold) may return or raise on a store
SearchOutcomes(cs, vz, vs, indexed, query, top_k, threshold) ==
  LET sims == Similarities(vz, vs, query)
  IN  {SearchResult(cs, vz, vs, indexed, sims, top_k, threshold, order) :
         order \in ArgsortDesc(sims)}

\* load has just read the file that save wrote of the store as it was
LoadsOwnSave ==
  /\ disk = Pickle(chunks, vectorizer, vectors)
  /\ out'.op = "load" /\ out'.status = "ok"

\* C15: a store restored by load from what save wrote has the chunks, the
\* vectors and the built/not-built status of the store saved, and every search
\* gives on it what it gives on the store saved.  (load assigns every field of
\* the store, so the store it is called on does not matter.)
C15_SaveLoadRoundTrip ==
  [][LoadsOwnSave =>
       /\ chunks' = chunks /\ vectors' = vectors /\ vectorizer' = vectorizer
       /\ is_indexed' = is_indexed
       /\ \A query \in Queries, top_k \in 1..MaxTopK, threshold \in Thresholds :
            SearchOutcomes(chunks', vectorizer', vectors', is_indexed',
                           query, top_k, threshold)
              = SearchOutcomes(chunks, vectorizer, vectors, is_indexed,
                               query, top_k, threshold)]_vars

\* C16: search and retrieve leave the chunks the index holds as they are: no
\* stored chunk gets a relevance_score or has a field changed.
C16_StoredChunksUntouched ==
  [][out'.op \in {"search", "retrieve"} => chunks' = chunks]_vars

\* retrieve returned a stored chunk with a relevance_score, and the stored
\* chunk has none
C16_Witness ==
  /\ IsRetrieve /\ out.status = "ok" /\ Len(out.value) >= 1
  /\ "relevance_score" \in DOMAIN out.value[1]
  /\ \E i \in 1..Len(chunks) :
        /\ chunks[i].chunk_id = out.value[1].chunk_id
        /\ chunks[i].document = out.value[1].document
        /\ chunks[i].text = out.value[1].text
        /\ "relevance_score" \notin DOMAIN chunks[i]

\* the paragraph the loop of _chunk_page is at
AtParagraph == chunker.pc = "paragraphs" /\ chunker.next <= Len(chunker.paragraphs)

\* this step is a turn of the loop that closes the buffer
SplitStep ==
  /\ AtParagraph
  /\ Exceeds(chunker.current_chunk, chunker.paragraphs[chunker.next],
             chunker.config.chunk_size)
  /\ chunker'.next = chunker.next + 1

\* the last k characters of t, none for k = 0
LastChars(t, k) == DropChars(t, TextLen(t) - Min2(k, TextLen(t)))

\* C17: at a split, a closed buffer longer than chunk_overlap leaves its last
\* chunk_overlap characters in front of the paragraph as the new buffer (with
\* chunk_overlap = 0 the paragraph alone); otherwise the new buffer is the
\* paragraph.
C17_SplitSeedsOverlap ==
  [][SplitStep =>
       LET closed == chunker.current_chunk
           para == chunker.paragraphs[chunker.next]
           overlap == chunker.config.chunk_overlap
       IN  chunker'.current_chunk =
             IF TextLen(closed) > overlap
             THEN Join(LastChars(closed, overlap), para)
             ELSE para]_vars

\* this step enters _chunk_page
PageStep == chunker.pc = "pages" /\ chunker'.pc = "paragraphs"

\* C18: the start offset of a page starts at 0, advances at each split by the
\* length of the buffer closed there less chunk_overlap, and no chunk has a
\* negative start_position.
C18_StartOffset ==
  [][/\ PageStep => chunker'.current_start = 0
     /\ SplitStep =>
          chunker'.current_start =
            chunker.current_start + TextLen(chunker.current_chunk)
              - chunker.config.chunk_overlap
     /\ chunker'.pc \in {"paragraphs", "pages"} =>
          \A i \in 1..Len(chunker'.chunks) : chunker'.chunks[i].start_position >= 0]_vars

\* C19: every chunk of a page, closed at a split or kept at the end of the
\* page, has a trimmed length of at least min_chunk_size.
C19_MinChunkSize ==
  InPage =>
    \A i \in 1..Len(chunker.chunks) :
       TextLen(Strip(chunker.chunks[i].text)) >= chunker.config.min_chunk_size

\* C20: every chunk of a page has a text that is not empty and has no white
\* space at either end, and char_count is the length of that text.
C20_ChunkTextTrimmed ==
  InPage =>
    \A i \in 1..Len(chunker.chunks) :
       /\ chunker.chunks[i].text # << >>
       /\ Strip(chunker.chunks[i].text) = chunker.chunks[i].text
       /\ chunker.chunks[i].char_count = TextLen(chunker.chunks[i].text)

\* the triggers, in the order of the table
Triggers == << "address", "director", "kyc", "document" >>

\* trigger k occurs in the lower-cased query
Triggered(k, query) ==
  \E j \in 1..Len(query) : WordIn(Triggers[k], Lower(query[j]))

\* C21: the enhanced query is the query followed by the expansion of the first
\* trigger, in the order address, director, kyc, document, that occurs in the
\* lower-cased query, and nothing more; without a trigger it is the query.
C21_FirstTriggerOnly ==
  out.op = "enhance" =>
    /\ Triggers = [k \in 1..Len(Enhancements) |-> Enhancements[k].key]
    /\ (\A k \in 1..Len(Triggers) : ~Triggered(k, out.query)) => out.value = out.query
    /\ \A k \in 1..Len(Triggers) :
          (Triggered(k, out.query) /\ \A j \in 1..(k - 1) : ~Triggered(j, out.query))
             => out.value = out.query \o Enhancements[k].expansion

\* a query with two triggers, the later of the table first in the query, in
\* upper case: the earlier of the table is the one expanded
C21_Witness ==
  /\ out.op = "enhance"
  /\ Len(out.query) >= 2
  /\ out.query[1] = "KYC" /\ out.query[2] = "director"
  /\ out.value = out.query \o Enhancements[2].expansion

\* the chunks of the filter's document that are similar enough to the
\* enhanced query of the last retrieve
MatchingOfDocument ==
  LET sims == Similarities(vectorizer, vectors, EnhanceQuery(out.query))
  IN  {i \in 1..Len(chunks) :
         chunks[i].document = out.filter /\ sims[i] >= out.threshold}

\* C22: on a built index, retrieve with max_results >= 1 and a document filter
\* returns min(max_results, N) chunks, N the number of chunks of that document
\* with similarity >= threshold to the enhanced query.  (Stated for a document
\* name and a query with at least one word.)
C22_FilterComplete ==
  (IsRetrieve /\ Built /\ out.k >= 1 /\ FilterApplies(out.filter) /\ out.query # << >>)
     => /\ out.status = "ok"
        /\ Len(out.value) = Min2(out.k, Cardinality(MatchingOfDocument))

====
